---- MODULE Spec2Model ----
(***************************************************************************)
(* Direct Transport ES API (src/main.py, src/schemas.py) as a state        *)
(* machine over the three collections of the document store                *)
(* ("transportuser", "transportrequest", "lead").                          *)
(*                                                                         *)
(* Encoding of Python / MongoDB values                                     *)
(*   - a document or a JSON body is a function from key strings to values; *)
(*     a key that is not supplied / not stored is not in its DOMAIN;       *)
(*   - None is the string NULL; Optional[List[str]] = None is NullList;    *)
(*   - an ObjectId is a positive natural; its 24-hex-digit string form is  *)
(*     the pair <<"hex", n>>; any other pair is a string ObjectId()        *)
(*     refuses;                                                            *)
(*   - a collection is the sequence of its documents in the store's        *)
(*     natural (insertion) order.                                          *)
(***************************************************************************)
EXTENDS Naturals, Sequences, FiniteSets, TLC

VARIABLES
    dbConfigured,   \* database.db is not None (fixed at import time)
    users,          \* collection "transportuser"
    requests,       \* collection "transportrequest"
    leads,          \* collection "lead"
    inflight,       \* update_request_status calls between update_one and find_one
    lastCall        \* the last completed call: [op, args, code, body]

vars == <<dbConfigured, users, requests, leads, inflight, lastCall>>

(***************************************************************************)
(* Bounds of the model                                                     *)
(***************************************************************************)
MaxUsers == 3
MaxRequests == 2
MaxAllUsers == 2
MaxAllLeads == 1
MaxRaceRequests == 1
MaxPageUsers == 52
MaxPageCarriers == 1

(***************************************************************************)
(* Values                                                                  *)
(***************************************************************************)
NULL == "<None>"
NullList == <<NULL>>

Roles == {"cliente", "transportista"}
Statuses == {"pendiente", "asignado", "en_ruta", "entregado", "cancelado"}

CarrierPageLimit == 50
RequestPageLimit == 100

\* Python truthiness of an Optional[str] query parameter: None and "" are falsy.
Truthy(v) == v # NULL /\ v # ""

\* str(ObjectId) and ObjectId(str)
StrOfOid(n) == <<"hex", n>>
IsObjectIdStr(s) == s[1] = "hex"
OidOfStr(s) == s[2]

\* dict minus a key, dict plus a key
DropKey(d, k) == [x \in DOMAIN d \ {k} |-> d[x]]
PutKey(d, k, v) == [x \in DOMAIN d \cup {k} |-> IF x = k THEN v ELSE d[x]]

\* _to_str_id: a dict with a truthy "_id" loses it and gains "id" = str(_id)
ToStrId(doc) ==
    IF "_id" \in DOMAIN doc
    THEN PutKey(DropKey(doc, "_id"), "id", StrOfOid(doc["_id"]))
    ELSE doc

\* cursor.limit(n)
Take(s, n) == IF Len(s) <= n THEN s ELSE SubSeq(s, 1, n)

\* [f(d) for d in docs]
RECURSIVE MapToStrId(_)
MapToStrId(docs) ==
    IF docs = <<>> THEN <<>>
    ELSE <<ToStrId(Head(docs))>> \o MapToStrId(Tail(docs))

InList(v, list) == \E i \in 1..Len(list) : list[i] = v

(***************************************************************************)
(* database.py (not among the source files): the two helpers main.py calls *)
(***************************************************************************)
\* create_document(collection, data): the document that is inserted; the new
\* ObjectId is the next one of the collection.
NewDocument(coll, data) == PutKey(data, "_id", Len(coll) + 1)

\* get_documents(collection, query, limit): list(find(query).limit(limit));
\* found is find(query), the matching documents in the store's order
GetDocuments(found, limit) == Take(found, limit)

(***************************************************************************)
(* schemas.py: validation and model_dump()                                 *)
(***************************************************************************)
OptionalOr(d, k, default) == IF k \in DOMAIN d THEN d[k] ELSE default

\* TransportUser
ValidUser(u) ==
    /\ {"role", "name", "phone"} \subseteq DOMAIN u
    /\ u.role \in Roles
    /\ Len(u.name) >= 2 /\ Len(u.name) <= 120
    /\ Len(u.phone) >= 7 /\ Len(u.phone) <= 20

DumpUser(u) ==
    [role |-> u.role,
     name |-> u.name,
     email |-> OptionalOr(u, "email", NULL),
     phone |-> u.phone,
     province |-> OptionalOr(u, "province", NULL),
     vehicle_types |-> OptionalOr(u, "vehicle_types", NullList),
     whatsapp_number |-> OptionalOr(u, "whatsapp_number", NULL),
     rating |-> OptionalOr(u, "rating", NULL),
     is_active |-> OptionalOr(u, "is_active", TRUE)]

(***************************************************************************)
(* The completed call, as its caller sees it                               *)
(***************************************************************************)
Call(op, args, code, body) == [op |-> op, args |-> args, code |-> code, body |-> body]

NoCall == Call("none", <<>>, 0, <<>>)

(***************************************************************************)
(* Users                                                                   *)
(***************************************************************************)
\* POST /api/users
CreateUser(u, max) ==
    /\ IF ~ValidUser(u)
       THEN /\ lastCall' = Call("create_user", u, 422, "validation")
            /\ UNCHANGED users
       ELSE IF ~dbConfigured
       THEN /\ lastCall' = Call("create_user", u, 500, "store")
            /\ UNCHANGED users
       ELSE /\ Len(users) < max
            /\ users' = Append(users, NewDocument(users, DumpUser(u)))
            /\ lastCall' = Call("create_user", u, 200, [id |-> StrOfOid(Len(users) + 1)])
    /\ UNCHANGED <<dbConfigured, requests, leads, inflight>>

\* the Mongo query list_transportistas builds
CarrierQueryMatches(d, province, vehicle_type) ==
    /\ Truthy(province) => d.province = province
    /\ Truthy(vehicle_type) => (d.vehicle_types # NullList /\ InList(vehicle_type, d.vehicle_types))

\* variant: the role of a fetched document is not tested
IsTransportistaNoFilter(d) == TRUE

IsTransportista(d) == d.role = "transportista"

list_transportistas(coll, province, vehicle_type) ==
    LET Q(d) == CarrierQueryMatches(d, province, vehicle_type)
        docs == GetDocuments(SelectSeq(coll, Q), CarrierPageLimit)
    IN  MapToStrId(SelectSeq(docs, IsTransportista))

\* GET /api/transportistas
ListCarriers(province, vehicle_type) ==
    /\ lastCall' =
         IF ~dbConfigured
         THEN Call("list_transportistas", <<province, vehicle_type>>, 500, "store")
         ELSE Call("list_transportistas", <<province, vehicle_type>>, 200,
                   list_transportistas(users, province, vehicle_type))
    /\ UNCHANGED <<dbConfigured, users, requests, leads, inflight>>

(***************************************************************************)
(* Requests                                                                *)
(***************************************************************************)
RequestRequired ==
    {"pickup_address", "pickup_city", "dropoff_address", "dropoff_city",
     "date_iso", "item_type", "size"}

\* variant: status typed str instead of Literal
ValidStatusAny(d) == TRUE

\* the Literal[...] type of TransportRequest.status and StatusUpdate.status
ValidStatus(d) == d.status \in Statuses

\* TransportRequest
ValidRequest(r) ==
    /\ RequestRequired \subseteq DOMAIN r
    /\ \A k \in RequestRequired : r[k] # NULL
    /\ "status" \in DOMAIN r => ValidStatus(r)

DumpRequest(r) ==
    [customer_id |-> OptionalOr(r, "customer_id", NULL),
     pickup_address |-> r.pickup_address,
     pickup_city |-> r.pickup_city,
     dropoff_address |-> r.dropoff_address,
     dropoff_city |-> r.dropoff_city,
     date_iso |-> r.date_iso,
     item_type |-> r.item_type,
     size |-> r.size,
     notes |-> OptionalOr(r, "notes", NULL),
     whatsapp_number |-> OptionalOr(r, "whatsapp_number", NULL),
     status |-> OptionalOr(r, "status", "pendiente")]

\* POST /api/requests
CreateRequest(r, max) ==
    /\ IF ~ValidRequest(r)
       THEN /\ lastCall' = Call("create_request", r, 422, "validation")
            /\ UNCHANGED requests
       ELSE IF ~dbConfigured
       THEN /\ lastCall' = Call("create_request", r, 500, "store")
            /\ UNCHANGED requests
       ELSE /\ Len(requests) < max
            /\ requests' = Append(requests, NewDocument(requests, DumpRequest(r)))
            /\ lastCall' = Call("create_request", r, 200, [id |-> StrOfOid(Len(requests) + 1)])
    /\ UNCHANGED <<dbConfigured, users, leads, inflight>>

\* "if status:" / "if city:"
FilterGiven(v) == Truthy(v)

\* variant: the city filter tests pickup_city alone
RequestQueryMatchesPickupOnly(d, status, city) ==
    /\ FilterGiven(status) => d.status = status
    /\ FilterGiven(city) => d.pickup_city = city

\* the Mongo query list_requests builds
RequestQueryMatches(d, status, city) ==
    /\ FilterGiven(status) => d.status = status
    /\ FilterGiven(city) => (d.pickup_city = city \/ d.dropoff_city = city)

list_requests(coll, status, city) ==
    LET Q(d) == RequestQueryMatches(d, status, city)
    IN  MapToStrId(GetDocuments(SelectSeq(coll, Q), RequestPageLimit))

\* GET /api/requests
ListRequests(status, city) ==
    /\ lastCall' =
         IF ~dbConfigured
         THEN Call("list_requests", <<status, city>>, 500, "store")
         ELSE Call("list_requests", <<status, city>>, 200, list_requests(requests, status, city))
    /\ UNCHANGED <<dbConfigured, users, requests, leads, inflight>>

\* StatusUpdate
StatusUpdateFields == {"status", "last_location", "updated_by", "timestamp"}

ValidStatusUpdate(u) == "status" \in DOMAIN u /\ ValidStatus(u)

\* variant: the None values are not dropped
UpdateDocKeepNone(update, now) ==
    LET keys == DOMAIN update \cap StatusUpdateFields
    IN  [k \in keys \cup {"updated_at"} |-> IF k = "updated_at" THEN now ELSE update[k]]

\* update_doc: model_dump(exclude_unset=True) without the None values, plus
\* updated_at = the server's localTime
UpdateDoc(update, now) ==
    LET keys == {k \in DOMAIN update \cap StatusUpdateFields : update[k] # NULL}
    IN  [k \in keys \cup {"updated_at"} |-> IF k = "updated_at" THEN now ELSE update[k]]

\* variant: a stored field is kept instead of overwritten
SetFieldsKeepOld(doc, update_doc) ==
    [k \in DOMAIN doc \cup DOMAIN update_doc |->
        IF k \in DOMAIN doc /\ k # "updated_at" THEN doc[k] ELSE update_doc[k]]

\* {"$set": update_doc} on one document
SetFields(doc, update_doc) ==
    [k \in DOMAIN doc \cup DOMAIN update_doc |->
        IF k \in DOMAIN update_doc THEN update_doc[k] ELSE doc[k]]

MatchedCount(coll, oid) == IF \E i \in 1..Len(coll) : coll[i]["_id"] = oid THEN 1 ELSE 0

\* variant: update_one with upsert=True
UpdateOneUpsert(coll, oid, update_doc) ==
    IF MatchedCount(coll, oid) = 0
    THEN Append(coll, PutKey(update_doc, "_id", oid))
    ELSE [i \in 1..Len(coll) |->
            IF coll[i]["_id"] = oid THEN SetFields(coll[i], update_doc) ELSE coll[i]]

\* variant: delivered and cancelled requests are not updated
UpdateOneForwardOnly(coll, oid, update_doc) ==
    [i \in 1..Len(coll) |->
        IF coll[i]["_id"] = oid /\ coll[i].status \notin {"entregado", "cancelado"}
        THEN SetFields(coll[i], update_doc) ELSE coll[i]]

\* variant: the document is replaced by update_doc
UpdateOneReplace(coll, oid, update_doc) ==
    [i \in 1..Len(coll) |->
        IF coll[i]["_id"] = oid THEN PutKey(update_doc, "_id", oid) ELSE coll[i]]

\* db["transportrequest"].update_one({"_id": oid}, {"$set": update_doc})
UpdateOne(coll, oid, update_doc) ==
    [i \in 1..Len(coll) |->
        IF coll[i]["_id"] = oid THEN SetFields(coll[i], update_doc) ELSE coll[i]]

\* db["transportrequest"].find_one({"_id": oid})
FindOne(coll, oid) ==
    IF MatchedCount(coll, oid) = 0 THEN NULL
    ELSE coll[CHOOSE i \in 1..Len(coll) : coll[i]["_id"] = oid]

UpdateArgs(request_id, update) == [request_id |-> request_id, update |-> update]

\* variant: the request id is not checked
UpdateRejectCodeNoIdCheck(request_id, update) ==
    IF ~ValidStatusUpdate(update) THEN 422
    ELSE IF ~dbConfigured THEN 500
    ELSE 0

\* the outcome of update_request_status before its first store access:
\* 0 when it goes on to update_one
UpdateRejectCode(request_id, update) ==
    IF ~ValidStatusUpdate(update) THEN 422
    ELSE IF ~dbConfigured THEN 500
    ELSE IF ~IsObjectIdStr(request_id) THEN 400
    ELSE 0

\* PATCH /api/requests/{request_id}/status, run without interruption
UpdateRequestStatus(request_id, update, now) ==
    LET code == UpdateRejectCode(request_id, update)
        args == UpdateArgs(request_id, update)
        oid == OidOfStr(request_id)
    IN  /\ IF code # 0
           THEN /\ lastCall' = Call("update_request_status", args, code, "rejected")
                /\ UNCHANGED requests
           ELSE /\ requests' = UpdateOne(requests, oid, UpdateDoc(update, now))
                /\ lastCall' =
                     IF MatchedCount(requests, oid) = 0
                     THEN Call("update_request_status", args, 404, "Request not found")
                     ELSE Call("update_request_status", args, 200,
                               ToStrId(FindOne(requests', oid)))
        /\ UNCHANGED <<dbConfigured, users, leads, inflight>>
(***************************************************************************)
(* update_request_status as the worker threads run it: update_one and      *)
(* find_one are two store operations, and other calls run between them     *)
(***************************************************************************)
Workers == {"w1", "w2"}

Idle == [pc |-> "idle"]

\* lines 108-120: validation, the id, update_doc, update_one, matched_count.
\* overwritten records, for each call waiting to read back, that a later
\* update_one wrote the same document.
UpdateWrite(w, request_id, update, now) ==
    LET code == UpdateRejectCode(request_id, update)
        args == UpdateArgs(request_id, update)
        oid == OidOfStr(request_id)
    IN  /\ inflight[w] = Idle
        /\ IF code # 0
           THEN /\ lastCall' = Call("update_request_status", args, code, "rejected")
                /\ UNCHANGED <<requests, inflight>>
           ELSE IF MatchedCount(requests, oid) = 0
           THEN /\ requests' = UpdateOne(requests, oid, UpdateDoc(update, now))
                /\ lastCall' = Call("update_request_status", args, 404, "Request not found")
                /\ UNCHANGED inflight
           ELSE /\ requests' = UpdateOne(requests, oid, UpdateDoc(update, now))
                /\ inflight' =
                     [x \in Workers |->
                        IF x = w
                        THEN [pc |-> "find_one", args |-> args, oid |-> oid,
                              overwritten |-> FALSE]
                        ELSE IF inflight[x] # Idle /\ inflight[x].oid = oid
                        THEN [inflight[x] EXCEPT !.overwritten = TRUE]
                        ELSE inflight[x]]
                /\ UNCHANGED lastCall
        /\ UNCHANGED <<dbConfigured, users, leads>>

\* lines 121-122: find_one and the response
UpdateRead(w) ==
    /\ inflight[w] # Idle
    /\ lastCall' = Call("update_request_status", inflight[w].args, 200,
                        ToStrId(FindOne(requests, inflight[w].oid)))
    /\ inflight' = [inflight EXCEPT ![w] = Idle]
    /\ UNCHANGED <<dbConfigured, users, requests, leads>>

(***************************************************************************)
(* Booking intents                                                         *)
(***************************************************************************)
BookingRequired ==
    {"name", "phone", "pickup_city", "dropoff_city", "item_type", "date_iso"}

\* BookingIntent
ValidBooking(b) ==
    /\ BookingRequired \subseteq DOMAIN b
    /\ \A k \in BookingRequired : b[k] # NULL

DumpBooking(b) ==
    [name |-> b.name,
     phone |-> b.phone,
     whatsapp_number |-> OptionalOr(b, "whatsapp_number", NULL),
     pickup_city |-> b.pickup_city,
     dropoff_city |-> b.dropoff_city,
     item_type |-> b.item_type,
     date_iso |-> b.date_iso]

\* POST /api/bookings/intent
CreateBookingIntent(b, max) ==
    /\ IF ~ValidBooking(b)
       THEN /\ lastCall' = Call("create_booking_intent", b, 422, "validation")
            /\ UNCHANGED leads
       ELSE IF ~dbConfigured
       THEN /\ lastCall' = Call("create_booking_intent", b, 500, "store")
            /\ UNCHANGED leads
       ELSE /\ Len(leads) < max
            /\ leads' = Append(leads,
                   NewDocument(leads, PutKey(DumpBooking(b), "type", "booking_intent")))
            /\ lastCall' = Call("create_booking_intent", b, 200,
                                [id |-> StrOfOid(Len(leads) + 1)])
    /\ UNCHANGED <<dbConfigured, users, requests, inflight>>

(***************************************************************************)
(* Inputs                                                                  *)
(***************************************************************************)
UserBase == [name |-> "Ana", phone |-> "+34 600111222"]

Cliente == PutKey(UserBase, "role", "cliente")

UserInputs ==
    { PutKey(Cliente, "province", "Madrid"),
      PutKey(PutKey(Cliente, "province", "Madrid"), "vehicle_types", <<"furgoneta">>),
      PutKey(UserBase, "role", "transportista"),
      PutKey(PutKey(PutKey(UserBase, "role", "transportista"), "province", "Madrid"),
             "vehicle_types", <<"furgoneta", "camion">>),
      PutKey(PutKey(PutKey(UserBase, "role", "transportista"), "province", "Sevilla"),
             "vehicle_types", <<"moto">>),
      PutKey(UserBase, "role", "admin"),
      [role |-> "transportista", name |-> "A", phone |-> "+34 600111222"] }

ProvinceFilters == {NULL, "", "Madrid", "Sevilla"}
VehicleFilters == {NULL, "", "furgoneta", "moto"}

PageUserInputs ==
    { PutKey(Cliente, "province", "Madrid"),
      PutKey(PutKey(UserBase, "role", "transportista"), "province", "Madrid") }

RequestBase ==
    [pickup_address |-> "Calle A", dropoff_address |-> "Calle B",
     date_iso |-> "2024-06-01T10:00:00Z", item_type |-> "muebles", size |-> "grande"]

MadridValencia ==
    PutKey(PutKey(RequestBase, "pickup_city", "Madrid"), "dropoff_city", "Valencia")

ValenciaMadrid ==
    [MadridValencia EXCEPT !.pickup_city = "Valencia", !.dropoff_city = "Madrid"]
       @@ [status |-> "asignado", customer_id |-> "c1", notes |-> "fragil"]

SevillaCancelado ==
    [MadridValencia EXCEPT !.pickup_city = "Sevilla", !.dropoff_city = "Sevilla"]
       @@ [status |-> "cancelado", notes |-> NULL]

RequestInputs ==
    { MadridValencia,
      ValenciaMadrid,
      SevillaCancelado,
      MadridValencia @@ [status |-> "otro"],
      MadridValencia @@ [status |-> NULL],
      PutKey(RequestBase, "pickup_city", "Madrid") }

StatusFilters == {NULL, "", "pendiente", "asignado", "otro"}
CityFilters == {NULL, "", "Madrid", "Barcelona"}

FullPatch ==
    [status |-> "asignado", last_location |-> "Madrid", updated_by |-> "u1",
     timestamp |-> "2024-06-01T09:00:00"]

NullPatch ==
    [status |-> "en_ruta", last_location |-> NULL, updated_by |-> NULL, timestamp |-> NULL]

\* bodies that differ in the fields they supply
UpdateInputs ==
    { [status |-> "en_ruta"],
      FullPatch,
      NullPatch,
      [status |-> "otro", last_location |-> "Valencia"],
      [last_location |-> "Madrid"] }

\* bodies that differ in the status they supply
StatusInputs == [status : Statuses \cup {"otro"}]

RequestIdInputs(max) == {StrOfOid(n) : n \in 1..(max + 1)} \cup {<<"text", 0>>}

ServerTimes == {"T1", "T2"}

BookingInputs ==
    { [name |-> "Ana", phone |-> "+34 600111222", pickup_city |-> "Madrid",
       dropoff_city |-> "Valencia", item_type |-> "muebles", date_iso |-> "2024-06-01"],
      [name |-> "Ana", pickup_city |-> "Madrid",
       dropoff_city |-> "Valencia", item_type |-> "muebles", date_iso |-> "2024-06-01"] }

(***************************************************************************)
(* Specifications                                                          *)
(***************************************************************************)
Init ==
    /\ dbConfigured \in BOOLEAN
    /\ users = <<>>
    /\ requests = <<>>
    /\ leads = <<>>
    /\ inflight = [w \in Workers |-> Idle]
    /\ lastCall = NoCall

\* users only
NextUsers ==
    \/ \E u \in UserInputs : CreateUser(u, MaxUsers)
    \/ \E p \in ProvinceFilters, v \in VehicleFilters : ListCarriers(p, v)

SpecUsers == Init /\ [][NextUsers]_vars

\* users only, a collection longer than one page of list_transportistas
PageCarriers == Len(SelectSeq(users, IsTransportista))

NextPage ==
    \/ \E u \in PageUserInputs :
         /\ u.role = "transportista" => PageCarriers < MaxPageCarriers
         /\ CreateUser(u, MaxPageUsers)
    \/ \E p \in {NULL, "Madrid"} : ListCarriers(p, NULL)

SpecPage == Init /\ [][NextPage]_vars

\* requests only, each call run without interruption: creating and listing
NextList ==
    \/ \E r \in RequestInputs : CreateRequest(r, MaxRequests)
    \/ \E s \in StatusFilters, c \in CityFilters : ListRequests(s, c)
    \/ \E id \in RequestIdInputs(MaxRequests) :
         UpdateRequestStatus(id, [status |-> "asignado"], "T1")

SpecList == Init /\ [][NextList]_vars

\* requests only, each call run without interruption: creating and updating
NextUpdate ==
    \/ \E r \in {MadridValencia, ValenciaMadrid @@ [status |-> "otro"]} :
         CreateRequest(r, MaxRequests)
    \/ \E id \in RequestIdInputs(MaxRequests), u \in UpdateInputs, now \in ServerTimes :
         UpdateRequestStatus(id, u, now)

SpecUpdate == Init /\ [][NextUpdate]_vars

\* requests only, each call run without interruption: every status, stored
\* and supplied
NextStatus ==
    \/ \E r \in {SevillaCancelado, MadridValencia @@ [status |-> "otro"]} :
         CreateRequest(r, MaxRequests)
    \/ \E id \in RequestIdInputs(MaxRequests), u \in StatusInputs, now \in ServerTimes :
         UpdateRequestStatus(id, u, now)

SpecStatus == Init /\ [][NextStatus]_vars

\* requests only, status updates interleaved at the store
RaceUpdateInputs ==
    { [status |-> "asignado"],
      [status |-> "entregado", last_location |-> "Valencia"],
      [status |-> "cancelado", last_location |-> NULL] }

NextRace ==
    \/ CreateRequest(MadridValencia, MaxRaceRequests)
    \/ \E w \in Workers, id \in RequestIdInputs(MaxRaceRequests),
          u \in RaceUpdateInputs, now \in ServerTimes :
         UpdateWrite(w, id, u, now)
    \/ \E w \in Workers : UpdateRead(w)

SpecRace == Init /\ [][NextRace]_vars

\* every operation
AllUpdateInputs ==
    { [status |-> "entregado"],
      [status |-> "asignado", last_location |-> "Madrid", updated_by |-> "u1",
       timestamp |-> "2024-06-01T09:00:00"] }

Next ==
    \/ \E u \in PageUserInputs : CreateUser(u, MaxAllUsers)
    \/ \E p \in {NULL, "Madrid"} : ListCarriers(p, NULL)
    \/ CreateRequest(MadridValencia, MaxRequests)
    \/ \E c \in {NULL, "Madrid"} : ListRequests(NULL, c)
    \/ \E id \in RequestIdInputs(MaxRequests), u \in AllUpdateInputs :
         UpdateRequestStatus(id, u, "T1")
    \/ \E b \in BookingInputs : CreateBookingIntent(b, MaxAllLeads)

Spec == Init /\ [][Next]_vars
(***************************************************************************)
(* Properties                                                              *)
(***************************************************************************)
Ok(c, op) == c.op = op /\ c.code = 200
Elems(seq) == {seq[i] : i \in 1..Len(seq)}
IndexOfOid(coll, oid) == CHOOSE i \in 1..Len(coll) : coll[i]["_id"] = oid
Stored(coll, oid) == \E i \in 1..Len(coll) : coll[i]["_id"] = oid

\* ---- C2 ----------------------------------------------------------------
\* C2: every document list_transportistas returns has role "transportista",
\* whatever the collection holds and whichever filters are given.
C2_OnlyCarriersListed ==
    Ok(lastCall, "list_transportistas") =>
        \A d \in Elems(lastCall.body) : d.role = "transportista"

\* a cliente that passes both filters is stored, and the list is not empty
C2_Witness ==
    /\ Ok(lastCall, "list_transportistas")
    /\ lastCall.args = <<"Madrid", "furgoneta">>
    /\ lastCall.body # <<>>
    /\ \E i \in 1..Len(users) :
         /\ users[i].role = "cliente"
         /\ CarrierQueryMatches(users[i], "Madrid", "furgoneta")

\* ---- C3 ----------------------------------------------------------------
\* the stored carriers the filters select: a filter that is given (not None)
\* is an exact province match / a membership in vehicle_types
SelectedCarriers(province, vehicle_type) ==
    { d \in Elems(users) :
        /\ d.role = "transportista"
        /\ province # NULL => d.province = province
        /\ vehicle_type # NULL =>
             (d.vehicle_types # NullList /\ InList(vehicle_type, d.vehicle_types)) }

\* C3: whenever at most 50 stored carriers match the filters, list_transportistas
\* returns every one of them, however many clientes the collection holds and
\* wherever they sit in the store's order.
C3_AllCarriersListed ==
    Ok(lastCall, "list_transportistas") =>
        LET sel == SelectedCarriers(lastCall.args[1], lastCall.args[2])
        IN  Cardinality(sel) <= CarrierPageLimit =>
                \A d \in sel : ToStrId(d) \in Elems(lastCall.body)
\* ---- C1 ----------------------------------------------------------------
\* the status a create_request / update_request_status call carried, NULL
\* when it carried none
CarriedStatus(c) ==
    IF c.op = "create_request" THEN OptionalOr(c.args, "status", "pendiente")
    ELSE IF c.op = "update_request_status" THEN OptionalOr(c.args.update, "status", NULL)
    ELSE "pendiente"

StoredStatusesValid == \A d \in Elems(requests) : d.status \in Statuses

\* C1: every stored request's status is one of the five values in every
\* reachable state, and a create or update call that carries another status
\* is rejected (422) and leaves the collection as it was.
C1_StatusAlwaysValid ==
    /\ []StoredStatusesValid
    /\ [][ (lastCall'.op \in {"create_request", "update_request_status"}
             /\ CarriedStatus(lastCall') \notin Statuses)
           => (lastCall'.code = 422 /\ requests' = requests) ]_vars

\* a call carrying "otro" was rejected while requests are stored
C1_Witness ==
    /\ lastCall.op = "update_request_status"
    /\ CarriedStatus(lastCall) = "otro"
    /\ lastCall.code = 422
    /\ Len(requests) = MaxRequests
    /\ \E d \in Elems(requests) : "updated_at" \in DOMAIN d

\* ---- C4 ----------------------------------------------------------------
\* the keys an update supplies with a non-null value
SuppliedNonNull(update) == {k \in DOMAIN update : update[k] # NULL}

\* C4: a successful update changes, in its target, only the fields it supplies
\* with a non-null value and updated_at: every other stored field keeps its
\* value, no other field appears, and no other document changes.
C4_PartialPatch ==
    [][ Ok(lastCall', "update_request_status") =>
          LET update == lastCall'.args.update
              i == IndexOfOid(requests, OidOfStr(lastCall'.args.request_id))
              touched == SuppliedNonNull(update) \cup {"updated_at"}
          IN  /\ Len(requests') = Len(requests)
              /\ \A j \in 1..Len(requests) : j # i => requests'[j] = requests[j]
              /\ DOMAIN requests'[i] \subseteq DOMAIN requests[i] \cup touched
              /\ \A k \in DOMAIN requests[i] \ touched :
                    k \in DOMAIN requests'[i] /\ requests'[i][k] = requests[i][k]
              /\ \A k \in SuppliedNonNull(update) : requests'[i][k] = update[k] ]_vars

\* an update that supplied last_location, updated_by and timestamp as null
\* succeeded on a request that had all three stored
C4_Witness ==
    /\ Ok(lastCall, "update_request_status")
    /\ lastCall.args.update.status = "en_ruta"
    /\ "last_location" \in DOMAIN lastCall.args.update
    /\ lastCall.args.update.last_location = NULL
    /\ lastCall.body.status = "en_ruta"
    /\ {"last_location", "updated_by", "timestamp"} \subseteq DOMAIN lastCall.body
    /\ lastCall.body.last_location = "Madrid"
    /\ lastCall.body.updated_by = "u1"

\* ---- C5 ----------------------------------------------------------------
\* C5: with the store configured, an update (a validated StatusUpdate) on a
\* well-formed id that matches no stored request answers 404, and whatever the
\* body the collection is left exactly as it was.
C5_UnknownIdNotFound ==
    [][ ( /\ lastCall'.op = "update_request_status"
          /\ dbConfigured
          /\ IsObjectIdStr(lastCall'.args.request_id)
          /\ ~Stored(requests, OidOfStr(lastCall'.args.request_id)) )
        => /\ requests' = requests
           /\ lastCall'.code # 200
           /\ ValidStatusUpdate(lastCall'.args.update) => lastCall'.code = 404 ]_vars

\* a 404 was answered while the collection held requests
C5_Witness ==
    /\ lastCall.op = "update_request_status"
    /\ lastCall.code = 404
    /\ Len(requests) >= 1
    /\ \E d \in Elems(requests) : "updated_at" \in DOMAIN d

\* ---- C6 ----------------------------------------------------------------
\* C6: with the store configured, an update (a validated StatusUpdate) on a
\* malformed id answers 400; whatever the body it never answers 404 and no
\* stored document changes.
C6_MalformedIdInvalid ==
    [][ ( /\ lastCall'.op = "update_request_status"
          /\ dbConfigured
          /\ ~IsObjectIdStr(lastCall'.args.request_id) )
        => /\ requests' = requests
           /\ lastCall'.code # 404
           /\ ValidStatusUpdate(lastCall'.args.update) => lastCall'.code = 400 ]_vars

\* a 400 was answered while the collection held requests
C6_Witness ==
    /\ lastCall.op = "update_request_status"
    /\ lastCall.code = 400
    /\ ~IsObjectIdStr(lastCall.args.request_id)
    /\ Len(requests) >= 1

\* ---- C7 ----------------------------------------------------------------
\* C7: an update with any of the five statuses on an existing request succeeds
\* and leaves the request with that status, whatever status it had before.
C7_AnyTransition ==
    [][ ( /\ lastCall'.op = "update_request_status"
          /\ dbConfigured
          /\ ValidStatusUpdate(lastCall'.args.update)
          /\ IsObjectIdStr(lastCall'.args.request_id)
          /\ Stored(requests, OidOfStr(lastCall'.args.request_id)) )
        => LET i == IndexOfOid(requests, OidOfStr(lastCall'.args.request_id))
           IN  /\ lastCall'.code = 200
               /\ requests'[i].status = lastCall'.args.update.status
               /\ lastCall'.body.status = lastCall'.args.update.status ]_vars

\* a request that was created "cancelado" is back to "pendiente", and another
\* one has been updated to "entregado"
C7_Witness ==
    /\ Ok(lastCall, "update_request_status")
    /\ lastCall.args.update = [status |-> "pendiente"]
    /\ lastCall.body.status = "pendiente"
    /\ lastCall.body.pickup_city = "Sevilla"
    /\ \E d \in Elems(requests) : d.status = "entregado"
\* ---- C8 ----------------------------------------------------------------
\* the stored requests a (status, city) filter selects, Given(_) telling
\* whether a filter value counts as given
SelectedGiven(status, city, statusGiven, cityGiven) ==
    { d \in Elems(requests) :
        /\ statusGiven => d.status = status
        /\ cityGiven => (d.pickup_city = city \/ d.dropoff_city = city) }

\* body holds exactly the selected requests, up to the page size
ExactPage(body, sel) ==
    IF Cardinality(sel) <= RequestPageLimit
    THEN Elems(body) = {ToStrId(d) : d \in sel}
    ELSE /\ Len(body) = RequestPageLimit
         /\ Elems(body) \subseteq {ToStrId(d) : d \in sel}

\* the scenario: a request created Madrid -> Valencia without a status is stored
\* as "pendiente", listed for city Madrid and not listed for city Barcelona
MadridValenciaScenario ==
    /\ ( /\ Ok(lastCall, "create_request")
         /\ lastCall.args.pickup_city = "Madrid"
         /\ lastCall.args.dropoff_city = "Valencia"
         /\ "status" \notin DOMAIN lastCall.args )
       => requests[Len(requests)].status = "pendiente"
    /\ \A d \in Elems(requests) :
         (d.pickup_city = "Madrid" /\ d.dropoff_city = "Valencia") =>
           /\ (Ok(lastCall, "list_requests") /\ lastCall.args = <<NULL, "Madrid">>)
                => ToStrId(d) \in Elems(lastCall.body)
           /\ (Ok(lastCall, "list_requests") /\ lastCall.args[2] = "Barcelona")
                => ToStrId(d) \notin Elems(lastCall.body)

\* C8 as stated: a filter is given when it is not None.
C8_ExactFilter_Original ==
    /\ Ok(lastCall, "list_requests") =>
         ExactPage(lastCall.body,
                   SelectedGiven(lastCall.args[1], lastCall.args[2],
                                 lastCall.args[1] # NULL, lastCall.args[2] # NULL))
    /\ MadridValenciaScenario

\* C8, amended: list_requests returns exactly the stored requests (up to 100)
\* whose status equals the status filter when a non-empty one is given and
\* whose pickup_city or dropoff_city equals the city filter when a non-empty one
\* is given; a filter that is absent or the empty string is not applied.
C8_ExactFilter ==
    /\ Ok(lastCall, "list_requests") =>
         ExactPage(lastCall.body,
                   SelectedGiven(lastCall.args[1], lastCall.args[2],
                                 lastCall.args[1] \notin {NULL, ""},
                                 lastCall.args[2] \notin {NULL, ""}))
    /\ MadridValenciaScenario

\* an empty status filter with a city filter: the request with that dropoff
\* city is listed whatever its status, the request of another city is not
C8_Witness ==
    /\ Ok(lastCall, "list_requests")
    /\ lastCall.args = <<"", "Madrid">>
    /\ Len(lastCall.body) = 1
    /\ lastCall.body[1].dropoff_city = "Madrid"
    /\ lastCall.body[1].status = "asignado"
    /\ Len(requests) = MaxRequests
    /\ \E d \in Elems(requests) : d.pickup_city = "Sevilla"
\* ---- C9 ----------------------------------------------------------------
\* the returned document carries every non-null field the update supplied
ReturnsOwnUpdate(update, body) ==
    \A k \in SuppliedNonNull(update) : k \in DOMAIN body /\ body[k] = update[k]

\* C9 as stated: every successful update returns its own update's values,
\* also when another update on the same request writes between its update_one
\* and its find_one.
C9_ReturnsOwnUpdate_Original ==
    Ok(lastCall, "update_request_status") =>
        ReturnsOwnUpdate(lastCall.args.update, lastCall.body)

\* C9, amended: a successful update returns the stored document as its find_one
\* reads it; it carries every non-null field the call supplied whenever no other
\* update_one on the same request ran between this call's update_one and its
\* find_one.
C9_ReturnsOwnUpdate ==
    [][ \A w \in Workers :
          (inflight[w] # Idle /\ inflight'[w] = Idle) =>
            /\ Ok(lastCall', "update_request_status")
            /\ lastCall'.args = inflight[w].args
            /\ lastCall'.body = ToStrId(requests[IndexOfOid(requests, inflight[w].oid)])
            /\ ~inflight[w].overwritten =>
                 ReturnsOwnUpdate(inflight[w].args.update, lastCall'.body) ]_vars

\* a call returned its own values while another call on the same request, which
\* wrote before it, still waits to read back
C9_Witness ==
    /\ Ok(lastCall, "update_request_status")
    /\ lastCall.args.update = [status |-> "asignado"]
    /\ lastCall.body.status = "asignado"
    /\ "last_location" \in DOMAIN lastCall.body
    /\ \E w \in Workers :
         /\ inflight[w] # Idle
         /\ inflight[w].overwritten
         /\ inflight[w].args.request_id = lastCall.args.request_id
         /\ inflight[w].args.update.status = "entregado"

\* ---- C10 ---------------------------------------------------------------
\* the request fields update_request_status may write
StatusPatchKeys == {"status", "last_location", "updated_by", "timestamp", "updated_at"}

\* C10: in every step of every operation, stored users stay as they are and in
\* place, stored requests stay in place, and a stored request changes only in
\* a successful update_request_status and only in status, last_location,
\* updated_by, timestamp and updated_at.
C10_EntityLifecycle ==
    [][ /\ Len(users') >= Len(users)
        /\ \A i \in 1..Len(users) : users'[i] = users[i]
        /\ Len(requests') >= Len(requests)
        /\ \A i \in 1..Len(requests) :
             /\ DOMAIN requests[i] \ StatusPatchKeys \subseteq DOMAIN requests'[i]
             /\ DOMAIN requests'[i] \subseteq DOMAIN requests[i] \cup StatusPatchKeys
             /\ \A k \in DOMAIN requests[i] \ StatusPatchKeys :
                   requests'[i][k] = requests[i][k]
             /\ requests'[i] # requests[i] => Ok(lastCall', "update_request_status") ]_vars

\* users, a request that an update has changed, and a lead are stored together
C10_Witness ==
    /\ Len(users) >= 1
    /\ Len(leads) >= 1
    /\ Len(requests) = MaxRequests
    /\ \E d \in Elems(requests) :
         /\ d.status = "entregado"
         /\ "last_location" \in DOMAIN d
         /\ d.pickup_city = "Madrid"
====
